---- MODULE Spec2Model ----
(***************************************************************************)
(* Model of loqui_connection's EventHandler (event_handler.rs): the        *)
(* per-connection engine that turns connection Events into at most one     *)
(* outgoing LoquiFrame, together with the tasks it spawns for delegated    *)
(* frames and the connection loop that feeds it.                           *)
(***************************************************************************)
EXTENDS Integers, Sequences, FiniteSets, TLC

\* ------------------------------------------------------------------------
\* Bounds of the model
\* ------------------------------------------------------------------------
\* Width, in bits, of the modelled sequence ids (u32 in the program).
SeqBits == 1
\* Number of delegated computations the Handler starts on one connection.
MaxTasks == 2
\* Number of ids a Handler takes from the IdSequence in one internal event.
MaxHandlerAllocs == 1

\* ------------------------------------------------------------------------
\* Value domains
\* ------------------------------------------------------------------------
Flags == {0, 1}
WireIds == {1, 2}
Payloads == {<<>>, <<98>>}
InternalEvents == {"ev_a", "ev_b"}
\* The (Error, u32) pairs a delegated computation can fail with; the message
\* of an error is a sequence of characters.
FutureErrors == {<<[msg |-> <<"a">>], 1>>, <<[msg |-> <<"a", "\"">>], 2>>}

\* Option<T>
None == [some |-> FALSE]
Some(x) == [some |-> TRUE, val |-> x]

\* Result<T, E>
Ok(x) == [ok |-> TRUE, val |-> x]
Err(e) == [ok |-> FALSE, err |-> e]

\* ------------------------------------------------------------------------
\* loqui_protocol::frames
\* ------------------------------------------------------------------------
OpHello == "OP_HELLO"
OpHelloAck == "OP_HELLO_ACK"
OpPing == "OP_PING"
OpPong == "OP_PONG"
OpRequest == "OP_REQUEST"
OpResponse == "OP_RESPONSE"
OpPush == "OP_PUSH"
OpGoAway == "OP_GO_AWAY"
OpError == "OP_ERROR"

\* A LoquiFrame is an enum: the variant and the frame struct it wraps.
LoquiFrame(variant, body) == [variant |-> variant, body |-> body]

\* LoquiFrame::opcode
opcode(frame) ==
    CASE frame.variant = "Hello" -> OpHello
      [] frame.variant = "HelloAck" -> OpHelloAck
      [] frame.variant = "Ping" -> OpPing
      [] frame.variant = "Pong" -> OpPong
      [] frame.variant = "Request" -> OpRequest
      [] frame.variant = "Response" -> OpResponse
      [] frame.variant = "Push" -> OpPush
      [] frame.variant = "GoAway" -> OpGoAway
      [] frame.variant = "Error" -> OpError

\* LoquiErrorCode::InternalServerError as u16
InternalServerError == "InternalServerError"

HelloFrames == {LoquiFrame("Hello", [flags |-> 0, payload |-> <<>>])}
HelloAckFrames == {LoquiFrame("HelloAck", [flags |-> 0, payload |-> <<>>])}
PingFrames ==
    {LoquiFrame("Ping", [sequence_id |-> s, flags |-> f]) : s \in WireIds, f \in Flags}
PongFrames ==
    {LoquiFrame("Pong", [flags |-> f, sequence_id |-> s]) : s \in WireIds, f \in Flags}
Requests == [flags : {0}, sequence_id : WireIds, payload : {<<98>>}]
\* Two responses that differ in every field.
Responses ==
    {[flags |-> 0, sequence_id |-> 1, payload |-> <<>>],
     [flags |-> 1, sequence_id |-> 2, payload |-> <<98>>]}
Pushes == [flags : {0}, payload : {<<98>>}]
GoAways == [flags : {0}, code : {0}, payload : Payloads]
Errors == [flags : {0}, sequence_id : {1}, code : {InternalServerError}, payload : {<<>>}]
DelegatedFrames ==
    {LoquiFrame("Request", b) : b \in Requests}
        \cup {LoquiFrame("Response", b) : b \in {r \in Responses : r.flags = 0}}
        \cup {LoquiFrame("Push", b) : b \in Pushes}
        \cup {LoquiFrame("Error", b) : b \in Errors}
GoAwayFrames == {LoquiFrame("GoAway", b) : b \in GoAways}
\* Every frame the peer can send.
SocketFrames ==
    HelloFrames \cup HelloAckFrames \cup PingFrames \cup PongFrames
        \cup DelegatedFrames \cup GoAwayFrames

\* ------------------------------------------------------------------------
\* IdSequence
\* ------------------------------------------------------------------------
IdSequenceDefault == 1

\* IdSequence::next: the id handed out and the generator afterwards.
IdSequenceNext(seq) == [id |-> seq, seq |-> (seq + 1) % (2 ^ SeqBits)]

\* ------------------------------------------------------------------------
\* failure::Error and its rendering (format!("{:?}", error.to_string()))
\* ------------------------------------------------------------------------
\* Error::to_string: the Display text of the error.
to_string(error) == error.msg

RECURSIVE escape_debug(_)
\* The characters of a str as <str as Debug>::fmt writes them between the
\* quotes: '"' and '\' are escaped with a backslash.
escape_debug(chars) ==
    IF chars = <<>> THEN <<>>
    ELSE LET c == Head(chars)
         IN  (IF c = "\"" \/ c = "\\" THEN <<"\\", c>> ELSE <<c>>)
                 \o escape_debug(Tail(chars))

\* format!("{:?}", s) for a String s
format_debug(chars) == <<"\"">> \o escape_debug(chars) \o <<"\"">>

\* The UTF-8 byte of an ASCII character.
byte_of(c) ==
    CASE c = "a" -> 97
      [] c = "\"" -> 34
      [] c = "\\" -> 92

\* str::as_bytes().to_vec()
as_bytes(chars) == [i \in 1..Len(chars) |-> byte_of(chars[i])]

\* ------------------------------------------------------------------------
\* Handler (pluggable): what an implementation may answer
\* ------------------------------------------------------------------------
\* The pending computation Handler::handle_frame may return.
Future == [pending |-> TRUE]
MaybeFutures == {None, Some(Future)}

\* What a pending computation may resolve to: Result<Response, (Error, u32)>.
FutureResults ==
    {Ok(r) : r \in Responses}
        \cup {Err(e) : e \in FutureErrors}

\* <T as Into<DelegatedFrame>>::into, for the four delegated frame structs.
DelegatedFrame(variant, body) == [delegated |-> variant, body |-> body]

\* Handler::handle_internal_event, as far as the engine can observe it: it
\* takes `allocs` ids from the IdSequence and returns no frame or a
\* Request carrying the first id it took (0 when it took none).
HandlerChoices == [allocs : 0..MaxHandlerAllocs, emit : {"none", "request"}]

RECURSIVE AllocIds(_, _)
AllocIds(seq, n) == IF n = 0 THEN seq ELSE AllocIds(IdSequenceNext(seq).seq, n - 1)

HandlerInternalEvent(internal_event, seq, choice) ==
    LET seq2 == AllocIds(seq, choice.allocs)
    IN  [id_sequence |-> seq2,
         frame |->
            CASE choice.emit = "none" -> None
              [] choice.emit = "request" ->
                    Some(LoquiFrame("Request",
                        [flags |-> 0,
                         sequence_id |-> IF choice.allocs = 0 THEN 0 ELSE seq,
                         payload |-> <<>>]))]

\* ------------------------------------------------------------------------
\* State
\* ------------------------------------------------------------------------
VARIABLES
    pong_received,  \* EventHandler.pong_received
    id_sequence,    \* EventHandler.id_sequence
    tasks,          \* the tasks spawned by delegate_frame, in spawn order
    channel,        \* ResponseComplete events sent through self_sender, not yet delivered
    open,           \* the connection loop is still running
    ev,             \* the Event of the latest handle_event call
    pre,            \* pong_received and id_sequence when that call began
    ret,            \* what that call returned
    hlog,           \* the calls it made to the Handler, in order
    last_ping,      \* sequence id of the latest Ping frame handle_ping emitted
    pong_status,    \* the Pong frames received since that Ping frame: "none" of them,
                    \* "other" ids only, or one that is its "match"
    pre_keepalive,  \* last_ping and pong_status when the latest call began
    spawned,        \* number of tasks delegate_frame has spawned
    dropped         \* the tasks whose response_complete failed

vars ==
    <<pong_received, id_sequence, tasks, channel, open, ev, pre, ret, hlog, last_ping,
      pong_status, pre_keepalive, spawned, dropped>>

\* LoquiError
PingTimeout == [kind |-> "PingTimeout"]
ConnectionCloseRequested == [kind |-> "ConnectionCloseRequested"]
InvalidOpcode(actual, expected) ==
    [kind |-> "InvalidOpcode", actual |-> actual, expected |-> expected]
ToldToGoAway(go_away) == [kind |-> "ToldToGoAway", go_away |-> go_away]

\* connection::Event
PingEv == [type |-> "Ping"]
CloseEv == [type |-> "Close"]
SocketReceive(frame) == [type |-> "SocketReceive", frame |-> frame]
InternalEv(internal_event) == [type |-> "InternalEvent", value |-> internal_event]
ResponseComplete(result) == [type |-> "ResponseComplete", result |-> result]
NoEvent == [type |-> "NoEvent"]

\* What one handler function did: the engine fields afterwards, the
\* MaybeFrameResult returned, the Handler calls made and the future handed
\* to tokio::spawn_async, if any.
Outcome(self, result, calls, spawn) ==
    [self |-> self, ret |-> result, calls |-> calls, spawn |-> spawn]

\* ------------------------------------------------------------------------
\* EventHandler
\* ------------------------------------------------------------------------

\* An engine that starts out waiting for a pong.
new_awaiting == [pong_received |-> FALSE, id_sequence |-> IdSequenceDefault]

\* EventHandler::new
new == [pong_received |-> TRUE, id_sequence |-> IdSequenceDefault]


\* handle_close that lets the connection live on.
handle_close_ignored(self) ==
    Outcome(self, Ok(None), <<>>, None)

handle_close(self) ==
    Outcome(self, Err(ConnectionCloseRequested), <<>>, None)



\* handle_ping that takes its id before it looks at pong_received.
handle_ping_eager(self) ==
    LET n == IdSequenceNext(self.id_sequence)
        ping == [sequence_id |-> n.id, flags |-> 0]
    IN  IF self.pong_received
        THEN Outcome([pong_received |-> FALSE, id_sequence |-> n.seq],
                     Ok(Some(LoquiFrame("Ping", ping))), <<>>, None)
        ELSE Outcome([self EXCEPT !.id_sequence = n.seq], Err(PingTimeout), <<>>, None)

\* handle_ping that forgives one missed pong.
handle_ping_grace(self) ==
    IF self.pong_received
    THEN LET n == IdSequenceNext(self.id_sequence)
             ping == [sequence_id |-> n.id, flags |-> 0]
         IN  Outcome([pong_received |-> FALSE, id_sequence |-> n.seq],
                     Ok(Some(LoquiFrame("Ping", ping))), <<>>, None)
    ELSE Outcome(self, Ok(None), <<>>, None)

\* handle_ping that does not record the outstanding ping.
handle_ping_not_awaiting(self) ==
    IF self.pong_received
    THEN LET n == IdSequenceNext(self.id_sequence)
             ping == [sequence_id |-> n.id, flags |-> 0]
         IN  Outcome([pong_received |-> TRUE, id_sequence |-> n.seq],
                     Ok(Some(LoquiFrame("Ping", ping))), <<>>, None)
    ELSE Outcome(self, Err(PingTimeout), <<>>, None)

handle_ping(self) ==
    IF self.pong_received
    THEN LET n == IdSequenceNext(self.id_sequence)
             ping == [sequence_id |-> n.id, flags |-> 0]
         IN  Outcome([pong_received |-> FALSE, id_sequence |-> n.seq],
                     Ok(Some(LoquiFrame("Ping", ping))), <<>>, None)
    ELSE Outcome(self, Err(PingTimeout), <<>>, None)


\* handle_handshake_frame that reports Hello whatever arrived.
handle_handshake_frame_hello(self, frame) ==
    Outcome(self, Err(InvalidOpcode(OpHello, None)), <<>>, None)

handle_handshake_frame(self, frame) ==
    Outcome(self, Err(InvalidOpcode(opcode(frame), None)), <<>>, None)


\* delegate_frame that drops the future the Handler returned.
delegate_frame_unspawned(self, delegated_frame, maybe_future) ==
    Outcome(self, Ok(None),
            <<[call |-> "handle_frame", arg |-> delegated_frame, returned |-> maybe_future]>>,
            None)

\* maybe_future is what Handler::handle_frame answers.
delegate_frame(self, delegated_frame, maybe_future) ==
    Outcome(self, Ok(None),
            <<[call |-> "handle_frame", arg |-> delegated_frame, returned |-> maybe_future]>>,
            maybe_future)


\* handle_ping_frame that answers with flags 0 instead of the ping's flags.
handle_ping_frame_flags0(self, ping) ==
    LET pong == [flags |-> 0, sequence_id |-> ping.sequence_id]
    IN  Outcome(self, Ok(Some(LoquiFrame("Pong", pong))), <<[call |-> "handle_ping"]>>, None)

handle_ping_frame(self, ping) ==
    LET pong == [flags |-> ping.flags, sequence_id |-> ping.sequence_id]
    IN  Outcome(self, Ok(Some(LoquiFrame("Pong", pong))), <<[call |-> "handle_ping"]>>, None)



\* handle_pong_frame that fails on a pong nobody asked for.
handle_pong_frame_unsolicited(self, pong) ==
    IF self.pong_received
    THEN Outcome(self, Err(InvalidOpcode(OpPong, None)), <<>>, None)
    ELSE Outcome([self EXCEPT !.pong_received = TRUE], Ok(None), <<>>, None)

\* handle_pong_frame that accepts only the pong of the latest id handed out.
handle_pong_frame_matching(self, pong) ==
    Outcome([self EXCEPT !.pong_received =
                self.pong_received
                    \/ IdSequenceNext(pong.sequence_id).seq = self.id_sequence],
            Ok(None), <<>>, None)

handle_pong_frame(self, pong) ==
    Outcome([self EXCEPT !.pong_received = TRUE], Ok(None), <<>>, None)


\* handle_frame that hands GoAway to the Handler like the other frames.
handle_frame_goaway_delegated(self, frame, maybe_future) ==
    CASE frame.variant \in {"Hello", "HelloAck"} -> handle_handshake_frame(self, frame)
      [] frame.variant = "Ping" -> handle_ping_frame(self, frame.body)
      [] frame.variant = "Pong" -> handle_pong_frame(self, frame.body)
      [] frame.variant \in {"Request", "Response", "Push", "GoAway", "Error"} ->
            delegate_frame(self, DelegatedFrame(frame.variant, frame.body), maybe_future)

handle_frame(self, frame, maybe_future) ==
    CASE frame.variant \in {"Hello", "HelloAck"} -> handle_handshake_frame(self, frame)
      [] frame.variant = "Ping" -> handle_ping_frame(self, frame.body)
      [] frame.variant = "Pong" -> handle_pong_frame(self, frame.body)
      [] frame.variant = "Request" ->
            delegate_frame(self, DelegatedFrame("Request", frame.body), maybe_future)
      [] frame.variant = "Response" ->
            delegate_frame(self, DelegatedFrame("Response", frame.body), maybe_future)
      [] frame.variant = "Push" ->
            delegate_frame(self, DelegatedFrame("Push", frame.body), maybe_future)
      [] frame.variant = "GoAway" -> Outcome(self, Err(ToldToGoAway(frame.body)), <<>>, None)
      [] frame.variant = "Error" ->
            delegate_frame(self, DelegatedFrame("Error", frame.body), maybe_future)



\* handle_response_complete that forgets which request failed.
handle_response_complete_unattributed(self, result) ==
    IF result.ok
    THEN Outcome(self, Ok(Some(LoquiFrame("Response", result.val))), <<>>, None)
    ELSE LET error == result.err[1]
             frame == [flags |-> 0,
                       sequence_id |-> 0,
                       code |-> InternalServerError,
                       payload |-> as_bytes(format_debug(to_string(error)))]
         IN  Outcome(self, Ok(Some(LoquiFrame("Error", frame))), <<>>, None)

\* handle_response_complete that clears the flags of the response.
handle_response_complete_flags0(self, result) ==
    IF result.ok
    THEN Outcome(self, Ok(Some(LoquiFrame("Response", [result.val EXCEPT !.flags = 0]))),
                 <<>>, None)
    ELSE LET error == result.err[1]
             sequence_id == result.err[2]
             frame == [flags |-> 0,
                       sequence_id |-> sequence_id,
                       code |-> InternalServerError,
                       payload |-> as_bytes(format_debug(to_string(error)))]
         IN  Outcome(self, Ok(Some(LoquiFrame("Error", frame))), <<>>, None)


\* handle_response_complete that swallows a failed request.
handle_response_complete_silent(self, result) ==
    IF result.ok
    THEN Outcome(self, Ok(Some(LoquiFrame("Response", result.val))), <<>>, None)
    ELSE Outcome(self, Ok(None), <<>>, None)

\* handle_response_complete that fails the connection on a failed request.
handle_response_complete_fatal(self, result) ==
    IF result.ok
    THEN Outcome(self, Ok(Some(LoquiFrame("Response", result.val))), <<>>, None)
    ELSE Outcome(self, Err([kind |-> "Internal", error |-> result.err[1]]), <<>>, None)

handle_response_complete(self, result) ==
    IF result.ok
    THEN Outcome(self, Ok(Some(LoquiFrame("Response", result.val))), <<>>, None)
    ELSE LET error == result.err[1]
             sequence_id == result.err[2]
             frame == [flags |-> 0,
                       sequence_id |-> sequence_id,
                       code |-> InternalServerError,
                       payload |-> as_bytes(format_debug(to_string(error)))]
         IN  Outcome(self, Ok(Some(LoquiFrame("Error", frame))), <<>>, None)


\* handle_internal_event that throws away the frame the Handler returned.
handle_internal_event_discarding(self, internal_event, choice) ==
    LET h == HandlerInternalEvent(internal_event, self.id_sequence, choice)
    IN  Outcome([self EXCEPT !.id_sequence = h.id_sequence], Ok(None),
                <<[call |-> "handle_internal_event", arg |-> internal_event,
                   id_sequence |-> h.id_sequence, returned |-> h.frame]>>, None)

\* choice is what Handler::handle_internal_event does with the IdSequence
\* and answers.
handle_internal_event(self, internal_event, choice) ==
    LET h == HandlerInternalEvent(internal_event, self.id_sequence, choice)
    IN  Outcome([self EXCEPT !.id_sequence = h.id_sequence], Ok(h.frame),
                <<[call |-> "handle_internal_event", arg |-> internal_event,
                   id_sequence |-> h.id_sequence, returned |-> h.frame]>>, None)

\* maybe_future and choice are the Handler's answers, used by the branches
\* that call it.
handle_event(self, event, maybe_future, choice) ==
    CASE event.type = "Ping" -> handle_ping(self)
      [] event.type = "SocketReceive" -> handle_frame(self, event.frame, maybe_future)
      [] event.type = "InternalEvent" -> handle_internal_event(self, event.value, choice)
      [] event.type = "ResponseComplete" -> handle_response_complete(self, event.result)
      [] event.type = "Close" -> handle_close(self)

\* ------------------------------------------------------------------------
\* The connection: the loop that feeds handle_event, and the spawned tasks
\* ------------------------------------------------------------------------
\* The task spawned for the n-th future the Handler returned.
Running(n) == [st |-> "running", task |-> n]

\* A ResponseComplete event as it waits in the channel, with the task that
\* sent it.
Sent(task, result) == [task |-> task, result |-> result]

\* The event the loop makes of a channel entry; the task is kept beside it.
Reinjected(entry) == ResponseComplete(entry.result) @@ [task |-> entry.task]

\* The Handler's answers where the dispatched branch does not call it.
NoChoice == [allocs |-> 0, emit |-> "none"]

Init ==
    /\ pong_received = new.pong_received
    /\ id_sequence = new.id_sequence
    /\ tasks = <<>>
    /\ channel = <<>>
    /\ open = TRUE
    /\ ev = NoEvent
    /\ pre = new
    /\ ret = Ok(None)
    /\ hlog = <<>>
    /\ last_ping = None
    /\ pong_status = "none"
    /\ pre_keepalive = [last_ping |-> None, pong_status |-> "none"]
    /\ spawned = 0
    /\ dropped = {}


\* A loop that goes on calling handle_event after a call has failed.
Deliver_resuming(event, maybe_future, choice, rest) ==
    /\ LET self == [pong_received |-> pong_received, id_sequence |-> id_sequence]
           out == handle_event(self, event, maybe_future, choice)
       IN  /\ pong_received' = out.self.pong_received
           /\ id_sequence' = out.self.id_sequence
           /\ tasks' = IF out.spawn.some THEN Append(tasks, Running(spawned + 1)) ELSE tasks
           /\ spawned' = IF out.spawn.some THEN spawned + 1 ELSE spawned
           /\ open' = out.ret.ok
           /\ ev' = event
           /\ pre' = self
           /\ ret' = out.ret
           /\ hlog' = out.calls
           /\ last_ping' =
                IF event.type = "Ping" /\ out.ret.ok /\ out.ret.val.some
                THEN Some(out.ret.val.val.body.sequence_id)
                ELSE last_ping
           /\ pong_status' = pong_status
    /\ pre_keepalive' = [last_ping |-> last_ping, pong_status |-> pong_status]
    /\ channel' = rest
    /\ UNCHANGED dropped

\* One turn of the connection loop: it hands `event` to handle_event, spawns
\* what delegate_frame passed to tokio::spawn_async, and stops when the call
\* fails. rest is the channel after the event was taken.
Deliver(event, maybe_future, choice, rest) ==
    /\ open
    /\ LET self == [pong_received |-> pong_received, id_sequence |-> id_sequence]
           out == handle_event(self, event, maybe_future, choice)
       IN  /\ pong_received' = out.self.pong_received
           /\ id_sequence' = out.self.id_sequence
           /\ tasks' = IF out.spawn.some THEN Append(tasks, Running(spawned + 1)) ELSE tasks
           /\ spawned' = IF out.spawn.some THEN spawned + 1 ELSE spawned
           /\ open' = out.ret.ok
           /\ ev' = event
           /\ pre' = self
           /\ ret' = out.ret
           /\ hlog' = out.calls
           /\ last_ping' =
                IF event.type = "Ping" /\ out.ret.ok /\ out.ret.val.some
                THEN Some(out.ret.val.val.body.sequence_id)
                ELSE last_ping
           /\ pong_status' =
                CASE event.type = "Ping" /\ out.ret.ok /\ out.ret.val.some -> "none"
                  [] event.type = "SocketReceive" /\ event.frame.variant = "Pong"
                        /\ last_ping # None ->
                        IF event.frame.body.sequence_id = last_ping.val
                        THEN "match"
                        ELSE IF pong_status = "none" THEN "other" ELSE pong_status
                  [] OTHER -> pong_status
    /\ pre_keepalive' = [last_ping |-> last_ping, pong_status |-> pong_status]
    /\ channel' = rest
    /\ UNCHANGED dropped

\* The ping timer fired.
PingEvent == Deliver(PingEv, None, NoChoice, channel)

\* A frame arrived from the peer.
SocketReceiveEvent ==
    \E frame \in SocketFrames, maybe_future \in MaybeFutures :
        /\ maybe_future.some => spawned < MaxTasks
        /\ Deliver(SocketReceive(frame), maybe_future, NoChoice, channel)

\* The application posted an internal event.
InternalEvent ==
    \E internal_event \in InternalEvents, choice \in HandlerChoices :
        Deliver(InternalEv(internal_event), None, choice, channel)

\* The loop takes the oldest ResponseComplete out of the channel.
ResponseCompleteEvent ==
    /\ channel # <<>>
    /\ Deliver(Reinjected(Head(channel)), None, NoChoice, Tail(channel))

\* The owner asks for the connection to be closed.
CloseEvent == Deliver(CloseEv, None, NoChoice, channel)

\* Sender::response_complete: the event is queued for the loop; the send
\* fails once the loop is gone.
response_complete(chan, is_open, entry) ==
    IF is_open THEN Append(chan, entry) ELSE chan


\* A task that treats a failed send as an error of the connection.
TaskComplete_escalating ==
    \E i \in 1..Len(tasks), response \in FutureResults :
        /\ channel' = response_complete(channel, open, Sent(tasks[i].task, response))
        /\ dropped' = IF open THEN dropped ELSE dropped \cup {tasks[i].task}
        /\ tasks' = SubSeq(tasks, 1, i - 1) \o SubSeq(tasks, i + 1, Len(tasks))
        /\ ret' = IF open THEN ret ELSE Err([kind |-> "SendError"])
        /\ UNCHANGED <<pong_received, id_sequence, open, ev, pre, hlog, last_ping,
                       pong_status, pre_keepalive, spawned>>

\* A task that marks the keepalive as answered when its work is done.
TaskComplete_touching ==
    \E i \in 1..Len(tasks), response \in FutureResults :
        /\ channel' = response_complete(channel, open, Sent(tasks[i].task, response))
        /\ dropped' = IF open THEN dropped ELSE dropped \cup {tasks[i].task}
        /\ tasks' = SubSeq(tasks, 1, i - 1) \o SubSeq(tasks, i + 1, Len(tasks))
        /\ pong_received' = TRUE
        /\ UNCHANGED <<id_sequence, open, ev, pre, ret, hlog, last_ping,
                       pong_status, pre_keepalive, spawned>>

\* A spawned task runs to its end: await!(future) returns `response` and
\* connection_sender.response_complete(response) sends it; what the send
\* returns is dropped. The response is local to the task until it is sent,
\* so the two statements are one step.
TaskComplete ==
    \E i \in 1..Len(tasks), response \in FutureResults :
        /\ channel' = response_complete(channel, open, Sent(tasks[i].task, response))
        /\ dropped' = IF open THEN dropped ELSE dropped \cup {tasks[i].task}
        /\ tasks' = SubSeq(tasks, 1, i - 1) \o SubSeq(tasks, i + 1, Len(tasks))
        /\ UNCHANGED <<pong_received, id_sequence, open, ev, pre, ret, hlog, last_ping,
                       pong_status, pre_keepalive, spawned>>

Next ==
    \/ PingEvent
    \/ SocketReceiveEvent
    \/ InternalEvent
    \/ ResponseCompleteEvent
    \/ CloseEvent
    \/ TaskComplete

Spec == Init /\ [][Next]_vars

\* The executor runs every spawned task to its end, and the loop takes every
\* event that waits in the channel for as long as it is running.
FairSpec == Spec /\ WF_vars(TaskComplete) /\ WF_vars(ResponseCompleteEvent)

\* ------------------------------------------------------------------------
\* Properties
\* ------------------------------------------------------------------------
\* The latest event was a frame of one of these variants.
Received(variants) == ev.type = "SocketReceive" /\ ev.frame.variant \in variants

\* The latest event was ResponseComplete(Ok(_)) / ResponseComplete(Err(_)).
CompletedOk == ev.type = "ResponseComplete" /\ ev.result.ok
CompletedErr == ev.type = "ResponseComplete" /\ ~ev.result.ok

\* The engine fields are what they were when the latest call began.
EngineUnchanged == pong_received = pre.pong_received /\ id_sequence = pre.id_sequence

\* A step that is a handle_event call: a task step takes a task away, no
\* other step does.
HandleEventStep == Len(tasks') >= Len(tasks)

\* C1: a Ping event handled while AwaitingPong (pong_received = false) fails
\* with PingTimeout and so returns no frame, already at the first Ping event
\* after the unanswered keepalive.
C1_PingWhileAwaitingPongTimesOut ==
    (ev = PingEv /\ ~pre.pong_received) => (~ret.ok /\ ret = Err(PingTimeout))

C1_Witness ==
    /\ ev = PingEv
    /\ ~pre.pong_received
    /\ last_ping # None
    /\ ret = Err(PingTimeout)

\* C2: a Ping event handled while Idle returns one Ping frame with flags 0
\* and the id the sequence generator hands out next (1 on a fresh engine),
\* advances the generator by that one allocation and leaves the engine
\* AwaitingPong.
C2_PingWhileIdleSendsPing ==
    (ev = PingEv /\ pre.pong_received) =>
        /\ ret.ok /\ ret.val.some
        /\ ret.val.val.variant = "Ping"
        /\ ret.val.val.body = [sequence_id |-> pre.id_sequence, flags |-> 0]
        /\ pre = new => ret.val.val.body.sequence_id = 1
        /\ id_sequence = (pre.id_sequence + 1) % (2 ^ SeqBits)
        /\ pong_received = FALSE
        /\ hlog = <<>>

C2_Witness ==
    /\ ev = PingEv
    /\ pre = new
    /\ ret = Ok(Some(LoquiFrame("Ping", [sequence_id |-> 1, flags |-> 0])))
    /\ ~pong_received

\* C3: receiving a Pong frame leaves the engine Idle and returns no frame,
\* whatever its sequence id and flags and whatever the state before; the
\* Ping event that follows it succeeds with a Ping frame.
C3_PongAlwaysClearsAwaitingPong ==
    /\ [](Received({"Pong"}) => (pong_received /\ ret = Ok(None) /\ hlog = <<>>))
    /\ [][(Received({"Pong"}) /\ PingEvent) =>
            (ret'.ok /\ ret'.val.some /\ ret'.val.val.variant = "Ping")]_vars

\* A Pong whose id is not the id of the Ping that is outstanding.
C3_Witness ==
    /\ Received({"Pong"})
    /\ ~pre.pong_received
    /\ last_ping # None
    /\ last_ping.val # ev.frame.body.sequence_id
    /\ ev.frame.body.flags = 1
    /\ pong_received

\* C4: an inbound Ping frame is answered with one Pong frame carrying the
\* Ping's flags and sequence id, the Handler's ping hook is called once, and
\* pong_received and the sequence generator stay as they were.
C4_PingFrameEchoedAsPong ==
    Received({"Ping"}) =>
        /\ ret.ok /\ ret.val.some
        /\ ret.val.val.variant = "Pong"
        /\ ret.val.val.body.flags = ev.frame.body.flags
        /\ ret.val.val.body.sequence_id = ev.frame.body.sequence_id
        /\ hlog = <<[call |-> "handle_ping"]>>
        /\ EngineUnchanged

C4_Witness ==
    /\ Received({"Ping"})
    /\ ev.frame.body = [sequence_id |-> 2, flags |-> 1]
    /\ ~pre.pong_received
    /\ ~pong_received
    /\ ret = Ok(Some(LoquiFrame("Pong", [flags |-> 1, sequence_id |-> 2])))

\* C5: a Hello or HelloAck frame fails with InvalidOpcode whose `actual` is
\* the opcode of that frame and whose `expected` is None; no frame is
\* returned and the Handler is not called.
C5_HandshakeFrameIsInvalidOpcode ==
    Received({"Hello", "HelloAck"}) =>
        /\ ~ret.ok
        /\ ret.err.kind = "InvalidOpcode"
        /\ ret.err.actual = (IF ev.frame.variant = "Hello" THEN OpHello ELSE OpHelloAck)
        /\ ret.err.expected = None
        /\ hlog = <<>>

C5_Witness ==
    /\ Received({"HelloAck"})
    /\ ~pre.pong_received
    /\ ret = Err(InvalidOpcode(OpHelloAck, None))

\* C6: a GoAway frame fails with ToldToGoAway carrying the received GoAway,
\* payload included; no frame is returned and the Handler is not called.
C6_GoAwayIsToldToGoAway ==
    Received({"GoAway"}) =>
        /\ ~ret.ok
        /\ ret.err.kind = "ToldToGoAway"
        /\ ret.err.go_away = ev.frame.body
        /\ hlog = <<>>

C6_Witness ==
    /\ Received({"GoAway"})
    /\ ev.frame.body.payload = <<98>>
    /\ ~ret.ok
    /\ ret.err.go_away.payload = <<98>>

\* C7: a Close event fails with ConnectionCloseRequested in every engine
\* state, with or without delegated computations in flight, and returns no
\* frame.
C7_CloseIsConnectionCloseRequested ==
    ev = CloseEv => (~ret.ok /\ ret = Err(ConnectionCloseRequested))

\* Close while AwaitingPong, one computation running and the result of
\* another waiting in the channel.
C7_Witness ==
    /\ ev = CloseEv
    /\ ~pre.pong_received
    /\ tasks = <<Running(2)>>
    /\ Len(channel) = 1
    /\ ret = Err(ConnectionCloseRequested)

\* C8: ResponseComplete(Ok(r)) succeeds and returns the Response frame r
\* itself: same sequence id, flags and payload.
C8_ResponseCompleteOkEmitsResponse ==
    CompletedOk =>
        /\ ret.ok /\ ret.val.some
        /\ ret.val.val.variant = "Response"
        /\ ret.val.val.body = ev.result.val
        /\ hlog = <<>>

C8_Witness ==
    /\ CompletedOk
    /\ ~pre.pong_received
    /\ ev.result.val = [flags |-> 1, sequence_id |-> 2, payload |-> <<98>>]
    /\ ret.val.val.body = [flags |-> 1, sequence_id |-> 2, payload |-> <<98>>]

\* C9: ResponseComplete(Err((e, sid))) succeeds and returns an Error frame
\* with flags 0, sequence id sid, code InternalServerError and the quoted,
\* escaped text of e as payload; the connection stays open.
C9_ResponseCompleteErrEmitsErrorFrame ==
    CompletedErr =>
        LET e == ev.result.err[1]
            sid == ev.result.err[2]
        IN  /\ ret.ok /\ ret.val.some
            /\ ret.val.val.variant = "Error"
            /\ ret.val.val.body.flags = 0
            /\ ret.val.val.body.sequence_id = sid
            /\ ret.val.val.body.code = InternalServerError
            /\ ret.val.val.body.payload = as_bytes(format_debug(e.msg))
            /\ Len(ret.val.val.body.payload) >= Len(e.msg) + 2
            /\ ret.val.val.body.payload[1] = 34
            /\ ret.val.val.body.payload[Len(ret.val.val.body.payload)] = 34
            /\ open

\* The error "a\"" for request 2 becomes the bytes of "\"a\\\"\"".
C9_Witness ==
    /\ CompletedErr
    /\ ev.result.err = <<[msg |-> <<"a", "\"">>], 2>>
    /\ ret.val.val.body.sequence_id = 2
    /\ ret.val.val.body.payload = <<34, 97, 92, 34, 34>>
    /\ open

\* C10: a Request, Response, Push or Error frame is handed to
\* Handler::handle_frame once and the call returns Ok with no frame, whether
\* or not the Handler returned a pending computation; a returned
\* computation is only spawned, not awaited.
C10_DelegatedFrameReturnsNoFrame ==
    /\ [](Received({"Request", "Response", "Push", "Error"}) =>
            /\ ret = Ok(None)
            /\ Len(hlog) = 1
            /\ hlog[1].call = "handle_frame"
            /\ hlog[1].arg = [delegated |-> ev.frame.variant, body |-> ev.frame.body]
            /\ EngineUnchanged)
    /\ [][(Received({"Request", "Response", "Push", "Error"})' /\ HandleEventStep) =>
            tasks' = IF hlog'[1].returned.some
                     THEN Append(tasks, Running(spawned + 1))
                     ELSE tasks]_vars

\* A frame the Handler answered with a pending computation, just spawned as
\* the second task, the first one having finished already.
C10_Witness ==
    /\ Received({"Request"})
    /\ hlog[1].returned.some
    /\ ret = Ok(None)
    /\ tasks = <<Running(2)>>
    /\ spawned = 2

\* The latest event is one of the four that fail.
FatalEvent ==
    \/ ev = PingEv /\ ~pre.pong_received
    \/ Received({"Hello", "HelloAck", "GoAway"})
    \/ ev = CloseEv

\* C11: handle_event fails in four cases only: a Ping event while
\* AwaitingPong (PingTimeout), a Hello or HelloAck frame (InvalidOpcode), a
\* GoAway frame (ToldToGoAway) and a Close event (ConnectionCloseRequested);
\* every other event in every state returns successfully.
C11_OnlyFourFailures ==
    ev # NoEvent =>
        /\ ~ret.ok <=> FatalEvent
        /\ ~ret.ok =>
            ret.err.kind =
                CASE ev = PingEv -> "PingTimeout"
                  [] ev = CloseEv -> "ConnectionCloseRequested"
                  [] Received({"GoAway"}) -> "ToldToGoAway"
                  [] Received({"Hello", "HelloAck"}) -> "InvalidOpcode"

\* An unsolicited Pong, received while Idle, is one of the events that
\* succeed.
C11_Witness ==
    /\ Received({"Pong"})
    /\ pre.pong_received
    /\ ret.ok
    /\ open

\* C12: InternalEvent(v) is passed to Handler::handle_internal_event once
\* and the call returns what the Handler returned, a frame or none; it
\* never fails, leaves pong_received alone and leaves the sequence generator
\* as the Handler left it.
C12_InternalEventPassedThrough ==
    ev.type = "InternalEvent" =>
        /\ Len(hlog) = 1
        /\ hlog[1].call = "handle_internal_event"
        /\ hlog[1].arg = ev.value
        /\ ret = Ok(hlog[1].returned)
        /\ pong_received = pre.pong_received
        /\ id_sequence = hlog[1].id_sequence

\* The Handler took an id and returned a Request frame carrying it, while
\* the engine was AwaitingPong.
C12_Witness ==
    /\ ev = InternalEv("ev_b")
    /\ ~pre.pong_received
    /\ id_sequence # pre.id_sequence
    /\ ret.ok /\ ret.val.some
    /\ ret.val.val.variant = "Request"
    /\ ret.val.val.body.sequence_id = pre.id_sequence

\* Task t has finished while the connection was open: its ResponseComplete
\* event waits in the channel.
Finished(t) == \E i \in 1..Len(channel) : channel[i].task = t

\* The frame handle_event returns for the result r of a computation: the
\* Response itself, or an Error frame with the sequence id it failed with.
FrameFor(r) ==
    /\ ret.ok /\ ret.val.some
    /\ IF r.ok
       THEN ret.val.val.variant = "Response" /\ ret.val.val.body = r.val
       ELSE ret.val.val.variant = "Error" /\ ret.val.val.body.sequence_id = r.err[2]

\* The latest call handled the ResponseComplete event of task t and
\* returned the frame for its result.
Handled(t) == ev.type = "ResponseComplete" /\ ev.task = t /\ FrameFor(ev.result)

\* The loop hands over the oldest entry of the channel as it was sent.
TakenAsSent == [][ResponseCompleteEvent => ev' = Reinjected(Head(channel))]_vars

\* C13 as stated: once a delegated computation has finished while the
\* connection is open, its ResponseComplete event, carrying its result, is
\* eventually handled and the Response, or the Error frame with its sequence
\* id, is returned.
C13_FinishedIsEventuallyHandled ==
    /\ TakenAsSent
    /\ \A t \in 1..MaxTasks : Finished(t) ~> Handled(t)

\* C13: once a delegated computation has finished while the connection is
\* open, its ResponseComplete event, carrying its result, is eventually
\* handled and the Response, or the Error frame with its sequence id, is
\* returned, unless the connection ends before the loop takes the event.
C13_FinishedIsHandledUnlessClosed ==
    /\ TakenAsSent
    /\ \A t \in 1..MaxTasks : Finished(t) ~> (Handled(t) \/ ~open)

\* The failure of the second task has been turned into its Error frame.
C13_Witness ==
    /\ Handled(2)
    /\ ev.result = Err(<<[msg |-> <<"a", "\"">>], 2>>)
    /\ ret.val.val.body.sequence_id = 2
    /\ open

\* A step of a spawned task: it is the only step that takes a task away.
TaskStep == Len(tasks') < Len(tasks)

\* The ids of the tasks in a sequence of tasks or channel entries.
TaskIds(seq) == {seq[i].task : i \in 1..Len(seq)}

\* C14: every frame returned for a ResponseComplete event carries the
\* sequence id of the result that the finishing task sent, and the event is
\* the one that task sent; tasks may finish in any order (the witness).
C14_FramesCarryTheirOwnId ==
    /\ [](ev.type = "ResponseComplete" => FrameFor(ev.result))
    /\ TakenAsSent
    /\ [][(TaskStep /\ open) =>
            /\ Len(channel') = Len(channel) + 1
            /\ SubSeq(channel', 1, Len(channel)) = channel
            /\ TaskIds(tasks) \ TaskIds(tasks') = {channel'[Len(channel')].task}]_vars

\* The frame of the second task has been returned while the first task,
\* spawned before it, is still running.
C14_Witness ==
    /\ ev.type = "ResponseComplete"
    /\ ev.task = 2
    /\ ev.result = Err(<<[msg |-> <<"a", "\"">>], 2>>)
    /\ FrameFor(ev.result)
    /\ tasks = <<Running(1)>>
    /\ channel = <<>>

\* C15: a task that finishes after the connection has ended changes
\* nothing but itself: its event is not queued, no error appears, no frame
\* is returned and handle_event is not called; ending the connection takes
\* no task away, and a task left over can still run to its end.
C15_LateCompletionIsDropped ==
    /\ [][(TaskStep /\ ~open) =>
            /\ Len(tasks') = Len(tasks) - 1
            /\ UNCHANGED <<channel, open, ev, pre, ret, hlog, pong_received, id_sequence>>]_vars
    /\ [][(open /\ ~open') => tasks' = tasks]_vars
    /\ []((~open /\ tasks # <<>>) => ENABLED TaskComplete)

\* Both tasks finished after the connection had ended.
C15_Witness ==
    /\ ~open
    /\ dropped = {1, 2}
    /\ tasks = <<>>
    /\ channel = <<>>

\* C16: a step of a spawned task leaves pong_received, the sequence
\* generator and the record of the latest call alone; all it does is append
\* at most one ResponseComplete event to the channel, and the loop takes
\* these events one at a time through handle_event.
C16_TasksOnlyPostEvents ==
    /\ [][TaskStep =>
            /\ UNCHANGED <<pong_received, id_sequence, open, ev, pre, ret, hlog>>
            /\ \/ channel' = channel
               \/ /\ Len(channel') = Len(channel) + 1
                  /\ SubSeq(channel', 1, Len(channel)) = channel]_vars
    /\ [][ResponseCompleteEvent =>
            /\ channel' = Tail(channel)
            /\ ev'.type = "ResponseComplete"
            /\ ev'.result = Head(channel).result]_vars

\* Two tasks have posted their events while the engine is AwaitingPong.
C16_Witness ==
    /\ open
    /\ ~pong_received
    /\ Len(channel) = 2
    /\ tasks = <<>>
    /\ ev = PingEv

C18_FalseUntilMatchingPong ==
    pong_received <=> ~(last_ping # None /\ pong_status # "match")

\* C18: pong_received is false exactly when a keepalive Ping has been sent
\* and no Pong, of whatever sequence id, has arrived since.
C18_FalseUntilAnyPong ==
    pong_received <=> ~(last_ping # None /\ pong_status = "none")

\* A Pong with another id than the outstanding Ping made the engine Idle.
C18_Witness ==
    /\ Received({"Pong"})
    /\ ~pre.pong_received
    /\ pong_status = "other"
    /\ pong_received

\* C19: a Ping event returns a Ping frame exactly when no Ping frame was
\* sent before or a Pong frame has been received since the latest one, so
\* two keepalive Pings are never in flight together.
C19_OnePingInFlight ==
    ev = PingEv =>
        /\ ret.ok <=>
            (pre_keepalive.last_ping = None \/ pre_keepalive.pong_status # "none")
        /\ ret.ok => (ret.val.some /\ ret.val.val.variant = "Ping")

\* A second keepalive Ping, sent after a Pong answered the first.
C19_Witness ==
    /\ ev = PingEv
    /\ ret.ok
    /\ pre_keepalive.last_ping # None
    /\ pre_keepalive.pong_status = "match"
    /\ last_ping # pre_keepalive.last_ping

\* C20: pong_received turns false only in a Ping event handled while Idle
\* and true only in an inbound Pong; the engine itself takes one id in that
\* Ping event and none anywhere else, so after an internal event the
\* generator is as the Handler left it and after every other call, every
\* failed call included, it is as it was.
C20_FrameCondition ==
    ev # NoEvent =>
        /\ (pre.pong_received /\ ~pong_received) => ev = PingEv
        /\ (~pre.pong_received /\ pong_received) => Received({"Pong"})
        /\ id_sequence =
            CASE ev = PingEv /\ ret.ok -> (pre.id_sequence + 1) % (2 ^ SeqBits)
              [] ev.type = "InternalEvent" -> hlog[1].id_sequence
              [] OTHER -> pre.id_sequence
        /\ ~ret.ok => EngineUnchanged

\* A Ping event that failed changed nothing.
C20_Witness ==
    /\ ev = PingEv
    /\ ~ret.ok
    /\ ~pong_received
    /\ id_sequence = pre.id_sequence
    /\ pre.id_sequence # IdSequenceDefault

====
